---- MODULE Spec2Model ----
(***************************************************************************)
(* A model of the SDP library's codec engine (src/util.go) and of the      *)
(* grammar state machine that drives unmarshalling.                        *)
(*                                                                         *)
(* Go strings are modelled as sequences of one-character strings, so that  *)
(* splitting, trimming, sorting and number parsing are computed the way    *)
(* the code computes them.                                                 *)
(***************************************************************************)
EXTENDS Integers, Sequences, FiniteSets, TLC

VARIABLES
    sd,      \* the session description the codec queries read
    call,    \* the call in progress
    ret,     \* what the call returned
    state,   \* the lexer's state function, "nil" once unmarshal has returned
    desc,    \* the session description unmarshal fills in
    read,    \* the lines of the text read so far
    err      \* the error unmarshal returned, "nil" if none

vars == << sd, call, ret, state, desc, read, err >>

codecVars == << sd, call, ret >>
lexerVars == << state, desc, read, err >>

----------------------------------------------------------------------------
(* Go standard-library string functions used by src/util.go.               *)

\* The characters the model uses, in increasing byte order (the order
\* sort.Strings compares by).
Ascii ==
    << "\t", " ", "*", "-", "/", "0", "1", "2", "3", "4", "5", "6", "7", "8", "9",
       ":", ";", "=", "A", "B", "C", "M", "P", "U",
       "a", "b", "c", "f", "m", "n", "p", "r", "t", "u", "x" >>

Digits == << "0", "1", "2", "3", "4", "5", "6", "7", "8", "9" >>

WhiteSpace == { "\t", " " }

Ord(c) == CHOOSE i \in 1..Len(Ascii) : Ascii[i] = c

\* strings.HasPrefix
HasPrefix(s, prefix) ==
    /\ Len(s) >= Len(prefix)
    /\ SubSeq(s, 1, Len(prefix)) = prefix

\* The index of the first occurrence of the one-character separator at or
\* after position i, 0 if none.
RECURSIVE IndexFrom(_, _, _)
IndexFrom(s, sep, i) ==
    IF i > Len(s) THEN 0
    ELSE IF s[i] = sep THEN i
    ELSE IndexFrom(s, sep, i + 1)

IndexOf(s, sep) == IndexFrom(s, sep, 1)

\* strings.SplitN(s, sep, n) for a one-character separator and n >= 1: at most
\* n substrings, the last one the unsplit remainder.
RECURSIVE SplitN(_, _, _)
SplitN(s, sep, n) ==
    LET k == IndexOf(s, sep)
    IN  IF n = 1 \/ k = 0
        THEN << s >>
        ELSE << SubSeq(s, 1, k - 1) >> \o SplitN(SubSeq(s, k + 1, Len(s)), sep, n - 1)

\* strings.Split(s, sep) for a one-character separator: every substring.
RECURSIVE Split(_, _)
Split(s, sep) ==
    LET k == IndexOf(s, sep)
    IN  IF k = 0
        THEN << s >>
        ELSE << SubSeq(s, 1, k - 1) >> \o Split(SubSeq(s, k + 1, Len(s)), sep)

\* strings.TrimSpace: leading and trailing white space removed.
RECURSIVE TrimSpace(_)
TrimSpace(s) ==
    IF s = << >> THEN s
    ELSE IF s[1] \in WhiteSpace THEN TrimSpace(Tail(s))
    ELSE IF s[Len(s)] \in WhiteSpace THEN TrimSpace(SubSeq(s, 1, Len(s) - 1))
    ELSE s

\* Simple case folding of the letters the model uses.
ToLower(c) ==
    CASE c = "A" -> "a"
      [] c = "B" -> "b"
      [] c = "C" -> "c"
      [] c = "M" -> "m"
      [] c = "P" -> "p"
      [] c = "U" -> "u"
      [] OTHER -> c

\* strings.EqualFold
EqualFold(s, t) ==
    /\ Len(s) = Len(t)
    /\ \A i \in 1..Len(s) : ToLower(s[i]) = ToLower(t[i])

\* The byte-wise order on strings that sort.Strings sorts by.
RECURSIVE StringLess(_, _)
StringLess(s, t) ==
    IF t = << >> THEN FALSE
    ELSE IF s = << >> THEN TRUE
    ELSE IF s[1] # t[1] THEN Ord(s[1]) < Ord(t[1])
    ELSE StringLess(Tail(s), Tail(t))

\* One string inserted into an increasing list.
RECURSIVE Insert(_, _)
Insert(x, sorted) ==
    IF sorted = << >> THEN << x >>
    ELSE IF StringLess(sorted[1], x) THEN << sorted[1] >> \o Insert(x, Tail(sorted))
    ELSE << x >> \o sorted

\* sort.Strings: the list in increasing order.
RECURSIVE SortStrings(_)
SortStrings(ss) ==
    IF ss = << >> THEN << >> ELSE Insert(ss[1], SortStrings(Tail(ss)))

\* The largest value of an unsigned integer of the given width, in digits.
MaxUintDigits(bitSize) ==
    IF bitSize = 8
    THEN << "2", "5", "5" >>
    ELSE << "4", "2", "9", "4", "9", "6", "7", "2", "9", "5" >>

RECURSIVE StripZeros(_)
StripZeros(s) ==
    IF Len(s) > 1 /\ s[1] = "0" THEN StripZeros(Tail(s)) ELSE s

DigitValue(c) == CHOOSE d \in 0..9 : Digits[d + 1] = c

RECURSIVE DecimalValue(_)
DecimalValue(s) ==
    IF s = << >> THEN 0
    ELSE DecimalValue(SubSeq(s, 1, Len(s) - 1)) * 10 + DigitValue(s[Len(s)])

\* strconv.ParseUint(s, 10, bitSize): a syntax error for an empty string or a
\* character that is no digit, a range error for a value above the width.
ParseUint(s, bitSize) ==
    LET isNumber == s # << >> /\ \A i \in 1..Len(s) : \E d \in 1..10 : Digits[d] = s[i]
        t   == StripZeros(s)
        max == MaxUintDigits(bitSize)
        inRange == \/ Len(t) < Len(max)
                   \/ Len(t) = Len(max) /\ ~StringLess(max, t)
    IN  IF isNumber /\ inRange
        THEN [val |-> DecimalValue(t), err |-> "nil"]
        ELSE [val |-> 0, err |-> "ParseUint"]

----------------------------------------------------------------------------
(* Codec and the attribute decoders.                                       *)

\* The zero value of Codec.
ZeroCodec ==
    [ PayloadType        |-> 0,
      Name               |-> << >>,
      ClockRate          |-> 0,
      EncodingParameters |-> << >>,
      Fmtp               |-> << >>,
      RTCPFeedback       |-> << >> ]

\* Attribute.String(): key, or key:value when the attribute has a value.
AttributeString(a) ==
    IF a.Value = << >> THEN a.Key ELSE a.Key \o << ":" >> \o a.Value

\* appendRTCPFeedback without the search for an identical string.
appendRTCPFeedback_NoSearch(c, rtcpFeedback) ==
    [c EXCEPT !.RTCPFeedback = Append(@, rtcpFeedback)]

\* Codec.appendRTCPFeedback: the string appended unless already in the list.
appendRTCPFeedback(c, rtcpFeedback) ==
    IF \E i \in 1..Len(c.RTCPFeedback) : c.RTCPFeedback[i] = rtcpFeedback
    THEN c
    ELSE [c EXCEPT !.RTCPFeedback = Append(@, rtcpFeedback)]

\* parseRtpmap: a=rtpmap:<payload type> <encoding name>/<clock rate>[/<encoding parameters>]
parseRtpmap(rtpmap) ==
    LET parsingFailed == "errExtractCodecRtpmap"
        split   == Split(rtpmap, " ")
        ptSplit == Split(split[1], ":")
        ptInt   == ParseUint(ptSplit[2], 8)
        withPt  == [ZeroCodec EXCEPT !.PayloadType = ptInt.val]
        split2  == Split(split[2], "/")
        withName == [withPt EXCEPT !.Name = split2[1]]
        parts   == Len(split2)
        rate    == ParseUint(split2[2], 32)
        withRate == IF parts > 1 THEN [withName EXCEPT !.ClockRate = rate.val] ELSE withName
        withParams == IF parts > 2
                      THEN [withRate EXCEPT !.EncodingParameters = split2[3]]
                      ELSE withRate
    IN  IF Len(split) # 2 THEN [codec |-> ZeroCodec, err |-> parsingFailed]
        ELSE IF Len(ptSplit) # 2 THEN [codec |-> ZeroCodec, err |-> parsingFailed]
        ELSE IF ptInt.err # "nil" THEN [codec |-> ZeroCodec, err |-> parsingFailed]
        ELSE IF parts > 1 /\ rate.err # "nil" THEN [codec |-> withName, err |-> parsingFailed]
        ELSE [codec |-> withParams, err |-> "nil"]

\* parseFmtp: a=fmtp:<format> <format specific parameters>
parseFmtp(fmtp) ==
    LET parsingFailed == "errExtractCodecFmtp"
        split        == SplitN(fmtp, " ", 2)
        formatParams == split[2]
        split2       == Split(split[1], ":")
        ptInt        == ParseUint(split2[2], 8)
    IN  IF Len(split) # 2 THEN [codec |-> ZeroCodec, err |-> parsingFailed]
        ELSE IF Len(split2) # 2 THEN [codec |-> ZeroCodec, err |-> parsingFailed]
        ELSE IF ptInt.err # "nil" THEN [codec |-> ZeroCodec, err |-> parsingFailed]
        ELSE [ codec |-> [ZeroCodec EXCEPT !.PayloadType = ptInt.val, !.Fmtp = formatParams],
               err   |-> "nil" ]

\* parseRtcpFb: a=rtcp-fb:<payload type> <RTCP feedback type> [<RTCP feedback parameter>]
parseRtcpFb(rtcpFb) ==
    LET failed     == "errExtractCodecRtcpFb"
        split      == SplitN(rtcpFb, " ", 2)
        ptSplit    == Split(split[1], ":")
        isWildcard == ptSplit[2] = << "*" >>
        ptInt      == ParseUint(ptSplit[2], 8)
        withPt     == IF isWildcard THEN ZeroCodec
                      ELSE [ZeroCodec EXCEPT !.PayloadType = ptInt.val]
    IN  IF Len(split) # 2
        THEN [codec |-> ZeroCodec, isWildcard |-> FALSE, err |-> failed]
        ELSE IF Len(ptSplit) # 2
        THEN [codec |-> ZeroCodec, isWildcard |-> FALSE, err |-> failed]
        ELSE IF ~isWildcard /\ ptInt.err # "nil"
        THEN [codec |-> ZeroCodec, isWildcard |-> FALSE, err |-> ptInt.err]
        ELSE [ codec      |-> [withPt EXCEPT !.RTCPFeedback = Append(@, split[2])],
               isWildcard |-> isWildcard,
               err        |-> "nil" ]

\* mergeCodecs with every non-empty field of the fragment overwriting the
\* saved one.
mergeCodecs_Overwrite(codec, codecs) ==
    LET savedCodec == IF codec.PayloadType \in DOMAIN codecs
                      THEN codecs[codec.PayloadType]
                      ELSE ZeroCodec
        merged ==
            [ PayloadType        |-> codec.PayloadType,
              Name               |-> IF codec.Name # << >>
                                     THEN codec.Name ELSE savedCodec.Name,
              ClockRate          |-> IF codec.ClockRate # 0
                                     THEN codec.ClockRate ELSE savedCodec.ClockRate,
              EncodingParameters |-> IF codec.EncodingParameters # << >>
                                     THEN codec.EncodingParameters
                                     ELSE savedCodec.EncodingParameters,
              Fmtp               |-> IF codec.Fmtp # << >>
                                     THEN codec.Fmtp ELSE savedCodec.Fmtp,
              RTCPFeedback       |-> savedCodec.RTCPFeedback \o codec.RTCPFeedback ]
    IN  [ p \in DOMAIN codecs \cup {merged.PayloadType} |->
            IF p = merged.PayloadType THEN merged ELSE codecs[p] ]

\* mergeCodecs: the fragment merged into the map entry of its payload type.
mergeCodecs(codec, codecs) ==
    LET savedCodec == IF codec.PayloadType \in DOMAIN codecs
                      THEN codecs[codec.PayloadType]
                      ELSE ZeroCodec
        merged ==
            [ PayloadType        |-> IF savedCodec.PayloadType = 0
                                     THEN codec.PayloadType ELSE savedCodec.PayloadType,
              Name               |-> IF savedCodec.Name = << >>
                                     THEN codec.Name ELSE savedCodec.Name,
              ClockRate          |-> IF savedCodec.ClockRate = 0
                                     THEN codec.ClockRate ELSE savedCodec.ClockRate,
              EncodingParameters |-> IF savedCodec.EncodingParameters = << >>
                                     THEN codec.EncodingParameters
                                     ELSE savedCodec.EncodingParameters,
              Fmtp               |-> IF savedCodec.Fmtp = << >>
                                     THEN codec.Fmtp ELSE savedCodec.Fmtp,
              RTCPFeedback       |-> savedCodec.RTCPFeedback \o codec.RTCPFeedback ]
    IN  [ p \in DOMAIN codecs \cup {merged.PayloadType} |->
            IF p = merged.PayloadType THEN merged ELSE codecs[p] ]

\* The static codecs that do not require a rtpmap.
StaticCodecs ==
    [ p \in {0, 8} |->
        IF p = 0
        THEN [ZeroCodec EXCEPT !.PayloadType = 0,
                               !.Name = << "P", "C", "M", "U" >>,
                               !.ClockRate = 8000]
        ELSE [ZeroCodec EXCEPT !.PayloadType = 8,
                               !.Name = << "P", "C", "M", "A" >>,
                               !.ClockRate = 8000] ]

rtpmapPrefix == << "r", "t", "p", "m", "a", "p", ":" >>
fmtpPrefix   == << "f", "m", "t", "p", ":" >>
rtcpFbPrefix == << "r", "t", "c", "p", "-", "f", "b", ":" >>

\* The body of the scan merging what a decoder returned whether or not it
\* reported an error.
scanAttribute_MergeOnError(a, acc) ==
    LET attr == AttributeString(a)
    IN  CASE HasPrefix(attr, rtpmapPrefix) ->
               [acc EXCEPT !.codecs = mergeCodecs(parseRtpmap(attr).codec, acc.codecs)]
          [] HasPrefix(attr, fmtpPrefix) ->
               [acc EXCEPT !.codecs = mergeCodecs(parseFmtp(attr).codec, acc.codecs)]
          [] HasPrefix(attr, rtcpFbPrefix) ->
               LET r == parseRtcpFb(attr)
               IN  IF r.isWildcard
                   THEN [acc EXCEPT !.wildcardRTCPFeedback = @ \o r.codec.RTCPFeedback]
                   ELSE [acc EXCEPT !.codecs = mergeCodecs(r.codec, acc.codecs)]
          [] OTHER -> acc

\* The body of buildCodecMap's scan for one attribute: acc holds the map and
\* the wildcard feedback collected so far.
scanAttribute(a, acc) ==
    LET attr == AttributeString(a)
    IN  CASE HasPrefix(attr, rtpmapPrefix) ->
               LET r == parseRtpmap(attr)
               IN  IF r.err = "nil"
                   THEN [acc EXCEPT !.codecs = mergeCodecs(r.codec, acc.codecs)]
                   ELSE acc
          [] HasPrefix(attr, fmtpPrefix) ->
               LET r == parseFmtp(attr)
               IN  IF r.err = "nil"
                   THEN [acc EXCEPT !.codecs = mergeCodecs(r.codec, acc.codecs)]
                   ELSE acc
          [] HasPrefix(attr, rtcpFbPrefix) ->
               LET r == parseRtcpFb(attr)
               IN  IF r.err # "nil" THEN acc
                   ELSE IF r.isWildcard
                   THEN [acc EXCEPT !.wildcardRTCPFeedback = @ \o r.codec.RTCPFeedback]
                   ELSE [acc EXCEPT !.codecs = mergeCodecs(r.codec, acc.codecs)]
          [] OTHER -> acc

\* The inner loop of buildCodecMap: the attributes of one media description.
RECURSIVE scanAttributes(_, _)
scanAttributes(attributes, acc) ==
    IF attributes = << >> THEN acc
    ELSE scanAttributes(Tail(attributes), scanAttribute(attributes[1], acc))

\* The outer loop of buildCodecMap: the media descriptions in order.
RECURSIVE scanMediaDescriptions(_, _)
scanMediaDescriptions(mds, acc) ==
    IF mds = << >> THEN acc
    ELSE scanMediaDescriptions(Tail(mds), scanAttributes(mds[1].Attributes, acc))

\* The scan with the session-level attributes scanned before the media
\* descriptions.
scanSession_WithSessionAttributes(s) ==
    scanMediaDescriptions(<< [Attributes |-> s.Attributes] >> \o s.MediaDescriptions,
                          [codecs |-> StaticCodecs, wildcardRTCPFeedback |-> << >>])

\* The map and the wildcard feedback after buildCodecMap's scan.
scanSession(s) ==
    scanMediaDescriptions(s.MediaDescriptions,
                          [codecs |-> StaticCodecs, wildcardRTCPFeedback |-> << >>])

\* Every wildcard feedback string appended to one codec.
RECURSIVE appendWildcards(_, _)
appendWildcards(codec, wildcardRTCPFeedback) ==
    IF wildcardRTCPFeedback = << >> THEN codec
    ELSE appendWildcards(appendRTCPFeedback(codec, wildcardRTCPFeedback[1]),
                         Tail(wildcardRTCPFeedback))

\* SessionDescription.buildCodecMap
buildCodecMap(s) ==
    LET acc == scanSession(s)
    IN  [ i \in DOMAIN acc.codecs |-> appendWildcards(acc.codecs[i], acc.wildcardRTCPFeedback) ]

\* equivalentFmtp: both strings split on ";", the parts sorted, then trimmed
\* and compared position by position.
equivalentFmtp(want, got) ==
    LET wantSplit == Split(want, ";")
        gotSplit  == Split(got, ";")
        wantSorted == SortStrings(wantSplit)
        gotSorted  == SortStrings(gotSplit)
    IN  IF Len(wantSplit) # Len(gotSplit) THEN FALSE
        ELSE \A i \in 1..Len(wantSorted) :
                TrimSpace(gotSorted[i]) = TrimSpace(wantSorted[i])

\* codecsMatch
codecsMatch(wanted, got) ==
    IF wanted.Name # << >> /\ ~EqualFold(wanted.Name, got.Name) THEN FALSE
    ELSE IF wanted.ClockRate # 0 /\ wanted.ClockRate # got.ClockRate THEN FALSE
    ELSE IF wanted.EncodingParameters # << >>
            /\ wanted.EncodingParameters # got.EncodingParameters THEN FALSE
    ELSE IF wanted.Fmtp # << >> /\ ~equivalentFmtp(wanted.Fmtp, got.Fmtp) THEN FALSE
    ELSE TRUE

----------------------------------------------------------------------------
(* The inputs of the codec queries.                                        *)

MaxAttrs == 2
MaxMedia == 2

\* a=rtpmap:96 A/8
RtpmapA ==
    [ Key   |-> << "r", "t", "p", "m", "a", "p" >>,
      Value |-> << "9", "6", " ", "A", "/", "8" >> ]

\* a=rtpmap:96 b/9/2
RtpmapB ==
    [ Key   |-> << "r", "t", "p", "m", "a", "p" >>,
      Value |-> << "9", "6", " ", "b", "/", "9", "/", "2" >> ]

\* a=fmtp:96 a; b
Fmtp96 ==
    [ Key   |-> << "f", "m", "t", "p" >>,
      Value |-> << "9", "6", " ", "a", ";", " ", "b" >> ]

\* a=fmtp:97 b;a
Fmtp97 ==
    [ Key   |-> << "f", "m", "t", "p" >>,
      Value |-> << "9", "7", " ", "b", ";", "a" >> ]

\* a=rtcp-fb:96 n
RtcpFb96 ==
    [ Key   |-> << "r", "t", "c", "p", "-", "f", "b" >>,
      Value |-> << "9", "6", " ", "n" >> ]

\* a=rtcp-fb:* n
RtcpFbAll ==
    [ Key   |-> << "r", "t", "c", "p", "-", "f", "b" >>,
      Value |-> << "*", " ", "n" >> ]

\* a=rtpmap:0 A/9/2
RtpmapStatic ==
    [ Key   |-> << "r", "t", "p", "m", "a", "p" >>,
      Value |-> << "0", " ", "A", "/", "9", "/", "2" >> ]

\* a=rtpmap:98 A/x
RtpmapBadRate ==
    [ Key   |-> << "r", "t", "p", "m", "a", "p" >>,
      Value |-> << "9", "8", " ", "A", "/", "x" >> ]

\* a=recvonly
RecvOnly ==
    [ Key   |-> << "r", "e", "c", "v", "o", "n", "l", "y" >>,
      Value |-> << >> ]

\* a=rtpmap:99 A/8
SessionRtpmap ==
    [ Key   |-> << "r", "t", "p", "m", "a", "p" >>,
      Value |-> << "9", "9", " ", "A", "/", "8" >> ]

\* The attributes a media description of the model may carry.
MediaAttributes ==
    { RtpmapA, RtpmapB, Fmtp96, Fmtp97, RtcpFb96, RtcpFbAll, RtpmapStatic,
      RtpmapBadRate, RecvOnly }

\* a=rtpmap:96 (no encoding name: one token)
RtpmapOneToken ==
    [ Key   |-> << "r", "t", "p", "m", "a", "p" >>,
      Value |-> << "9", "6" >> ]

\* a=fmtp:256 a (payload type above 255)
FmtpBigType ==
    [ Key   |-> << "f", "m", "t", "p" >>,
      Value |-> << "2", "5", "6", " ", "a" >> ]

\* a=rtcp-fb:x n (payload type not a number)
RtcpFbBadType ==
    [ Key   |-> << "r", "t", "c", "p", "-", "f", "b" >>,
      Value |-> << "x", " ", "n" >> ]

\* The attributes of the sessions whose scan meets decode failures: the
\* failing ones, and some that decode.
FailingAttributes ==
    { RtpmapOneToken, RtpmapBadRate, FmtpBigType, RtcpFbBadType,
      RtpmapA, RtcpFbAll }

FailingAttributeLists(n) == UNION { [1..k -> FailingAttributes] : k \in 0..n }

\* The attribute lists of at most n attributes.
AttributeLists(n) == UNION { [1..k -> MediaAttributes] : k \in 0..n }

\* The list cut into m media descriptions at the given positions
\* (cuts[j] attributes belong to the first j descriptions).
CutMedia(attributes, m, cuts) ==
    [ j \in 1..m |->
        [ Attributes |->
            SubSeq(attributes,
                   (IF j = 1 THEN 0 ELSE cuts[j - 1]) + 1,
                   IF j = m THEN Len(attributes) ELSE cuts[j]) ] ]

\* Monotone cut positions for m media descriptions over n attributes.
Cuts(n, m) ==
    { c \in [1..(m - 1) -> 0..n] : \A j \in 1..(m - 2) : c[j] <= c[j + 1] }

\* The payload types the queries ask for.
PayloadTypes == { 0, 8, 96, 97, 98, 99 }

\* The payload type lists GetCodecsForPayloadTypes is asked for.
PayloadTypeLists ==
    { << >>, << 96 >>, << 97, 96 >>, << 96, 0, 96 >>, << 98, 8 >> }

\* The codecs GetPayloadTypeForCodec is asked for.
WantedCodecs ==
    { ZeroCodec,
      [ZeroCodec EXCEPT !.Name = << "a" >>],
      [ZeroCodec EXCEPT !.Fmtp = << "a", ";", "b" >>],
      [ZeroCodec EXCEPT !.ClockRate = 9, !.EncodingParameters = << "2" >>],
      [ZeroCodec EXCEPT !.PayloadType = 5, !.Name = << "p", "c", "m", "u" >>,
                        !.ClockRate = 8000, !.RTCPFeedback = << << "x" >> >>] }

\* An optional field: no value, or one.
Absent == << >>
Present(value) == << value >>

\* The zero value of SessionDescription.
EmptyDescription ==
    [ Version               |-> Absent,
      Origin                |-> Absent,
      SessionName           |-> Absent,
      SessionInformation    |-> Absent,
      URI                   |-> Absent,
      EmailAddress          |-> Absent,
      PhoneNumber           |-> Absent,
      ConnectionInformation |-> Absent,
      Bandwidth             |-> << >>,
      TimeDescriptions      |-> << >>,
      TimeZones             |-> Absent,
      EncryptionKey         |-> Absent,
      Attributes            |-> << >>,
      MediaDescriptions     |-> << >> ]

NoCall == [op |-> "none"]

----------------------------------------------------------------------------
(* The codec queries on a session description.                             *)

\* A session description of at most MaxMedia media descriptions carrying at
\* most MaxAttrs attributes in all, and one session-level rtpmap attribute.
Init ==
    /\ \E attributes \in AttributeLists(MaxAttrs) :
         \E m \in (IF attributes = << >> THEN 0 ELSE 1)..MaxMedia :
           \E cuts \in Cuts(Len(attributes), m) :
              sd = [ Attributes        |-> << SessionRtpmap >>,
                     MediaDescriptions |-> CutMedia(attributes, m, cuts) ]
    /\ call = NoCall
    /\ ret = NoCall
    /\ state = "idle"
    /\ desc = EmptyDescription
    /\ read = << >>
    /\ err = "nil"

\* SessionDescription.GetCodecForPayloadType
GetCodecForPayloadType ==
    LET codecs == buildCodecMap(sd)
    IN  /\ call = NoCall
        /\ \E payloadType \in PayloadTypes :
             /\ call' = [op |-> "GetCodecForPayloadType", payloadType |-> payloadType]
             /\ ret' = IF payloadType \in DOMAIN codecs
                       THEN [codec |-> codecs[payloadType], err |-> "nil"]
                       ELSE [codec |-> ZeroCodec, err |-> "errPayloadTypeNotFound"]
        /\ UNCHANGED << sd, lexerVars >>

\* The loop of GetCodecsForPayloadTypes appending whatever the map lookup
\* returns, found or not.
RECURSIVE lookupAll_IgnoreOk(_, _)
lookupAll_IgnoreOk(payloadTypes, codecs) ==
    IF payloadTypes = << >> THEN << >>
    ELSE << IF payloadTypes[1] \in DOMAIN codecs
            THEN codecs[payloadTypes[1]] ELSE ZeroCodec >>
         \o lookupAll_IgnoreOk(Tail(payloadTypes), codecs)

\* The loop of GetCodecsForPayloadTypes: the codecs of the listed payload
\* types that the map holds, in the order of the list.
RECURSIVE lookupAll(_, _)
lookupAll(payloadTypes, codecs) ==
    IF payloadTypes = << >> THEN << >>
    ELSE (IF payloadTypes[1] \in DOMAIN codecs
          THEN << codecs[payloadTypes[1]] >> ELSE << >>)
         \o lookupAll(Tail(payloadTypes), codecs)

\* SessionDescription.GetCodecsForPayloadTypes
GetCodecsForPayloadTypes ==
    LET codecs == buildCodecMap(sd)
    IN  /\ call = NoCall
        /\ \E payloadTypes \in PayloadTypeLists :
             /\ call' = [op |-> "GetCodecsForPayloadTypes", payloadTypes |-> payloadTypes]
             /\ ret' = [result |-> lookupAll(payloadTypes, codecs), err |-> "nil"]
        /\ UNCHANGED << sd, lexerVars >>

\* The payload types whose codec matches wanted: the candidates of
\* GetPayloadTypeForCodec's loop.
matchingPayloadTypes(wanted, codecs) ==
    { payloadType \in DOMAIN codecs : codecsMatch(wanted, codecs[payloadType]) }

\* SessionDescription.GetPayloadTypeForCodec: Go ranges over the map in an
\* unspecified order, so any matching payload type may be the one returned.
GetPayloadTypeForCodec ==
    LET codecs == buildCodecMap(sd)
    IN  /\ call = NoCall
        /\ \E wanted \in WantedCodecs :
             /\ call' = [op |-> "GetPayloadTypeForCodec", wanted |-> wanted]
             /\ IF matchingPayloadTypes(wanted, codecs) # {}
                THEN \E payloadType \in matchingPayloadTypes(wanted, codecs) :
                        ret' = [payloadType |-> payloadType, err |-> "nil"]
                ELSE ret' = [payloadType |-> 0, err |-> "errCodecNotFound"]
        /\ UNCHANGED << sd, lexerVars >>

\* The caller takes the result; the session description is ready for the
\* next query.
Return ==
    /\ call # NoCall
    /\ call' = NoCall
    /\ ret' = NoCall
    /\ UNCHANGED << sd, lexerVars >>

Next ==
    \/ GetCodecForPayloadType
    \/ GetCodecsForPayloadTypes
    \/ GetPayloadTypeForCodec
    \/ Return

Spec == Init /\ [][Next]_vars

\* The same queries on session descriptions whose attributes are drawn from
\* FailingAttributes.
InitDecodeFailures ==
    /\ \E attributes \in FailingAttributeLists(MaxAttrs) :
         \E m \in (IF attributes = << >> THEN 0 ELSE 1)..MaxMedia :
           \E cuts \in Cuts(Len(attributes), m) :
              sd = [ Attributes        |-> << SessionRtpmap >>,
                     MediaDescriptions |-> CutMedia(attributes, m, cuts) ]
    /\ call = NoCall
    /\ ret = NoCall
    /\ state = "idle"
    /\ desc = EmptyDescription
    /\ read = << >>
    /\ err = "nil"

SpecDecodeFailures == InitDecodeFailures /\ [][Next]_vars

----------------------------------------------------------------------------
(* The matching functions applied to inputs drawn at the start.            *)

MaxParts == 2

\* No session: the state of sd while a pure function is applied.
NoSession == [Attributes |-> << >>, MediaDescriptions |-> << >>]

\* The parts an fmtp string of the model is made of.
FmtpParts ==
    { << >>, << "a" >>, << "b" >>, << " ", "a" >>, << " ", "b" >>, << "a", " " >> }

\* The parts joined by ";".
RECURSIVE JoinParts(_)
JoinParts(parts) ==
    IF Len(parts) = 1 THEN parts[1]
    ELSE parts[1] \o << ";" >> \o JoinParts(Tail(parts))

\* The fmtp strings of 1..MaxParts parts.
FmtpStrings ==
    { JoinParts(parts) : parts \in UNION { [1..k -> FmtpParts] : k \in 1..MaxParts } }

InitFmtp ==
    /\ sd = NoSession
    /\ \E want \in FmtpStrings, got \in FmtpStrings :
          call = [op |-> "equivalentFmtp", want |-> want, got |-> got]
    /\ ret = NoCall
    /\ state = "idle"
    /\ desc = EmptyDescription
    /\ read = << >>
    /\ err = "nil"

\* equivalentFmtp applied to the strings drawn.
ApplyEquivalentFmtp ==
    /\ call.op = "equivalentFmtp"
    /\ ret = NoCall
    /\ ret' = [result |-> equivalentFmtp(call.want, call.got)]
    /\ UNCHANGED << sd, call, lexerVars >>

NextFmtp == ApplyEquivalentFmtp

SpecFmtp == InitFmtp /\ [][NextFmtp]_vars

\* The wanted codecs codecsMatch is applied to.
MatchWanted ==
    { [ PayloadType        |-> pt,
        Name               |-> name,
        ClockRate          |-> rate,
        EncodingParameters |-> params,
        Fmtp               |-> fmtp,
        RTCPFeedback       |-> fb ] :
      pt \in {0, 5},
      name \in { << >>, << "a" >>, << "A" >> },
      rate \in {0, 8},
      params \in { << >>, << "2" >> },
      fmtp \in { << >>, << "a", ";", "b" >>, << "b", ";", " ", "a" >> },
      fb \in { << >>, << << "n" >> >> } }

\* The candidate codecs codecsMatch is applied to.
MatchCandidates ==
    { [ PayloadType        |-> 96,
        Name               |-> name,
        ClockRate          |-> rate,
        EncodingParameters |-> params,
        Fmtp               |-> fmtp,
        RTCPFeedback       |-> << >> ] :
      name \in { << >>, << "A" >>, << "b" >> },
      rate \in {0, 8, 9},
      params \in { << >>, << "2" >>, << "3" >> },
      fmtp \in { << >>, << "a", ";", "b" >>, << "a", ";", " ", "b" >>, << "a" >> } }

InitMatch ==
    /\ sd = NoSession
    /\ \E wanted \in MatchWanted, got \in MatchCandidates :
          call = [op |-> "codecsMatch", wanted |-> wanted, got |-> got]
    /\ ret = NoCall
    /\ state = "idle"
    /\ desc = EmptyDescription
    /\ read = << >>
    /\ err = "nil"

\* codecsMatch applied to the codecs drawn.
ApplyCodecsMatch ==
    /\ call.op = "codecsMatch"
    /\ ret = NoCall
    /\ ret' = [result |-> codecsMatch(call.wanted, call.got)]
    /\ UNCHANGED << sd, call, lexerVars >>

NextMatch == ApplyCodecsMatch

SpecMatch == InitMatch /\ [][NextMatch]_vars

----------------------------------------------------------------------------
(* The grammar state machine behind unmarshal, and marshal.  Field values  *)
(* are opaque tokens: the field decoders are not modelled.                 *)

MaxLines == 9

\* The record types of the grammar, and one that is none of them.
RecordTypes ==
    { "v", "o", "s", "i", "u", "e", "p", "c", "b", "t", "r", "z", "k", "a", "m" }

LineKeys == RecordTypes \cup { "x" }

\* The values a line of the text may carry.
LineValues(key) ==
    IF key = "a" THEN { "attr1", "attr2" } ELSE { "value" }

\* The states that read a record type, each with the function it hands to
\* handleType: the state function selected for a type, "nil" for a type the
\* state does not accept.
KeyToState ==
    [ s1  |-> [ v |-> "unmarshalProtocolVersion" ],
      s2  |-> [ o |-> "unmarshalOrigin" ],
      s3  |-> [ s |-> "unmarshalSessionName" ],
      s4  |-> [ i |-> "unmarshalSessionInformation",
                u |-> "unmarshalURI",
                e |-> "unmarshalEmail",
                p |-> "unmarshalPhone",
                c |-> "unmarshalSessionConnectionInformation",
                b |-> "unmarshalSessionBandwidth",
                t |-> "unmarshalTiming" ],
      s5  |-> [ b |-> "unmarshalSessionBandwidth",
                t |-> "unmarshalTiming" ],
      s6  |-> [ p |-> "unmarshalPhone",
                c |-> "unmarshalSessionConnectionInformation",
                b |-> "unmarshalSessionBandwidth",
                t |-> "unmarshalTiming" ],
      s7  |-> [ u |-> "unmarshalURI",
                e |-> "unmarshalEmail",
                p |-> "unmarshalPhone",
                c |-> "unmarshalSessionConnectionInformation",
                b |-> "unmarshalSessionBandwidth",
                t |-> "unmarshalTiming" ],
      s8  |-> [ c |-> "unmarshalSessionConnectionInformation",
                b |-> "unmarshalSessionBandwidth",
                t |-> "unmarshalTiming" ],
      s9  |-> [ z |-> "unmarshalTimeZones",
                k |-> "unmarshalSessionEncryptionKey",
                a |-> "unmarshalSessionAttribute",
                r |-> "unmarshalRepeatTimes",
                t |-> "unmarshalTiming",
                m |-> "unmarshalMediaDescription" ],
      s10 |-> [ e |-> "unmarshalEmail",
                p |-> "unmarshalPhone",
                c |-> "unmarshalSessionConnectionInformation",
                b |-> "unmarshalSessionBandwidth",
                t |-> "unmarshalTiming" ],
      s11 |-> [ a |-> "unmarshalSessionAttribute",
                m |-> "unmarshalMediaDescription" ],
      s12 |-> [ a |-> "unmarshalMediaAttribute",
                k |-> "unmarshalMediaEncryptionKey",
                b |-> "unmarshalMediaBandwidth",
                c |-> "unmarshalMediaConnectionInformation",
                i |-> "unmarshalMediaTitle",
                m |-> "unmarshalMediaDescription" ],
      s13 |-> [ a |-> "unmarshalSessionAttribute",
                k |-> "unmarshalSessionEncryptionKey",
                m |-> "unmarshalMediaDescription" ],
      s14 |-> [ a |-> "unmarshalMediaAttribute",
                k |-> "unmarshalMediaEncryptionKey",
                b |-> "unmarshalMediaBandwidth",
                c |-> "unmarshalMediaConnectionInformation",
                i |-> "unmarshalMediaTitle",
                m |-> "unmarshalMediaDescription" ],
      s15 |-> [ a |-> "unmarshalMediaAttribute",
                k |-> "unmarshalMediaEncryptionKey",
                b |-> "unmarshalMediaBandwidth",
                c |-> "unmarshalMediaConnectionInformation",
                i |-> "unmarshalMediaTitle",
                m |-> "unmarshalMediaDescription" ],
      s16 |-> [ a |-> "unmarshalMediaAttribute",
                k |-> "unmarshalMediaEncryptionKey",
                b |-> "unmarshalMediaBandwidth",
                c |-> "unmarshalMediaConnectionInformation",
                i |-> "unmarshalMediaTitle",
                m |-> "unmarshalMediaDescription" ] ]

TypeStates == DOMAIN KeyToState

\* keyToState: a state's function applied to a key; "nil" for a key the
\* state does not accept.
keyToState(fn, key) ==
    IF key \in DOMAIN fn THEN fn[key] ELSE "nil"

\* The state that follows each field function.
NextState ==
    [ unmarshalProtocolVersion              |-> "s2",
      unmarshalOrigin                       |-> "s3",
      unmarshalSessionName                  |-> "s4",
      unmarshalSessionInformation           |-> "s7",
      unmarshalURI                          |-> "s10",
      unmarshalEmail                        |-> "s6",
      unmarshalPhone                        |-> "s8",
      unmarshalSessionConnectionInformation |-> "s5",
      unmarshalSessionBandwidth             |-> "s5",
      unmarshalTiming                       |-> "s9",
      unmarshalRepeatTimes                  |-> "s9",
      unmarshalTimeZones                    |-> "s13",
      unmarshalSessionEncryptionKey         |-> "s11",
      unmarshalSessionAttribute             |-> "s11",
      unmarshalMediaDescription             |-> "s12",
      unmarshalMediaTitle                   |-> "s16",
      unmarshalMediaConnectionInformation   |-> "s15",
      unmarshalMediaBandwidth               |-> "s15",
      unmarshalMediaEncryptionKey           |-> "s14",
      unmarshalMediaAttribute               |-> "s14" ]

FieldStates == DOMAIN NextState

\* A media description with its name only.
NewMedia(value) ==
    [ MediaName             |-> value,
      MediaTitle            |-> Absent,
      ConnectionInformation |-> Absent,
      Bandwidth             |-> << >>,
      EncryptionKey         |-> Absent,
      Attributes            |-> << >> ]

\* What a field function stores: session fields in the description, media
\* fields in the last media description, repeat times in the last time
\* description.
storeField(fn, value, d) ==
    LET nm == Len(d.MediaDescriptions)
        nt == Len(d.TimeDescriptions)
    IN  CASE fn = "unmarshalProtocolVersion" -> [d EXCEPT !.Version = Present(value)]
          [] fn = "unmarshalOrigin" -> [d EXCEPT !.Origin = Present(value)]
          [] fn = "unmarshalSessionName" -> [d EXCEPT !.SessionName = Present(value)]
          [] fn = "unmarshalSessionInformation" ->
                [d EXCEPT !.SessionInformation = Present(value)]
          [] fn = "unmarshalURI" -> [d EXCEPT !.URI = Present(value)]
          [] fn = "unmarshalEmail" -> [d EXCEPT !.EmailAddress = Present(value)]
          [] fn = "unmarshalPhone" -> [d EXCEPT !.PhoneNumber = Present(value)]
          [] fn = "unmarshalSessionConnectionInformation" ->
                [d EXCEPT !.ConnectionInformation = Present(value)]
          [] fn = "unmarshalSessionBandwidth" ->
                [d EXCEPT !.Bandwidth = Append(@, value)]
          [] fn = "unmarshalTiming" ->
                [d EXCEPT !.TimeDescriptions =
                              Append(@, [Timing |-> value, RepeatTimes |-> << >>])]
          [] fn = "unmarshalRepeatTimes" ->
                [d EXCEPT !.TimeDescriptions[nt].RepeatTimes = Append(@, value)]
          [] fn = "unmarshalTimeZones" -> [d EXCEPT !.TimeZones = Present(value)]
          [] fn = "unmarshalSessionEncryptionKey" ->
                [d EXCEPT !.EncryptionKey = Present(value)]
          [] fn = "unmarshalSessionAttribute" ->
                [d EXCEPT !.Attributes = Append(@, value)]
          [] fn = "unmarshalMediaDescription" ->
                [d EXCEPT !.MediaDescriptions = Append(@, NewMedia(value))]
          [] fn = "unmarshalMediaTitle" ->
                [d EXCEPT !.MediaDescriptions[nm].MediaTitle = Present(value)]
          [] fn = "unmarshalMediaConnectionInformation" ->
                [d EXCEPT !.MediaDescriptions[nm].ConnectionInformation = Present(value)]
          [] fn = "unmarshalMediaBandwidth" ->
                [d EXCEPT !.MediaDescriptions[nm].Bandwidth = Append(@, value)]
          [] fn = "unmarshalMediaEncryptionKey" ->
                [d EXCEPT !.MediaDescriptions[nm].EncryptionKey = Present(value)]
          [] fn = "unmarshalMediaAttribute" ->
                [d EXCEPT !.MediaDescriptions[nm].Attributes = Append(@, value)]

\* The key readType returns when it has read no record type (the zero byte).
NoKey == ""

\* What readType returns: the type of the next record, end of input before
\* any further record, or a line that is no record.
ReadTypeResults ==
    { [key |-> k, err |-> "nil"] : k \in LineKeys }
        \cup { [key |-> NoKey, err |-> "EOF"], [key |-> NoKey, err |-> "errSyntaxError"] }

\* handleType ending the parse without error at a record type the state
\* does not accept.
handleType_NoSyntaxError(r, fn) ==
    LET res == keyToState(fn, r.key)
    IN  IF r.err = "EOF" /\ r.key = NoKey
        THEN [state |-> "nil", err |-> "nil"]
        ELSE IF r.err # "nil"
        THEN [state |-> "nil", err |-> r.err]
        ELSE [state |-> res, err |-> "nil"]

\* lexer.handleType: r is what readType returned, fn the state's function
\* from record types to states.
handleType(r, fn) ==
    LET res == keyToState(fn, r.key)
    IN  IF r.err = "EOF" /\ r.key = NoKey
        THEN [state |-> "nil", err |-> "nil"]
        ELSE IF r.err # "nil"
        THEN [state |-> "nil", err |-> r.err]
        ELSE IF res # "nil"
        THEN [state |-> res, err |-> "nil"]
        ELSE [state |-> "nil", err |-> "errSyntaxError"]

InitLexer ==
    /\ sd = NoSession
    /\ call = NoCall
    /\ ret = NoCall
    /\ state = "s1"
    /\ desc = EmptyDescription
    /\ read = << >>
    /\ err = "nil"

\* One turn of unmarshal's loop in a state that reads a record type: the
\* next line of the text is a record or a line that is no record (key NoKey),
\* or the text ends here.  The text is drawn line by line as the lexer reads
\* it.
HandleType ==
    /\ state \in TypeStates
    /\ \E r \in ReadTypeResults :
          LET res == handleType(r, KeyToState[state])
          IN  /\ r.err # "EOF" => Len(read) < MaxLines
              /\ IF r.err # "EOF"
                 THEN \E value \in LineValues(r.key) :
                         read' = Append(read, [key |-> r.key, value |-> value])
                 ELSE read' = read
              /\ state' = res.state
              /\ err' = res.err
    /\ UNCHANGED << desc, codecVars >>

\* One turn of unmarshal's loop in a field function: the value of the record
\* is read and stored, and the next state returned.
UnmarshalField ==
    /\ state \in FieldStates
    /\ desc' = storeField(state, read[Len(read)].value, desc)
    /\ state' = NextState[state]
    /\ UNCHANGED << read, err, codecVars >>

NextLexer ==
    \/ HandleType
    \/ UnmarshalField

SpecLexer == InitLexer /\ [][NextLexer]_vars

\* The lines of an optional field.
OptionalLine(key, field) ==
    IF field = Absent THEN << >> ELSE << [key |-> key, value |-> field[1]] >>

\* The lines of a repeated field.
RepeatedLines(key, values) ==
    [ i \in 1..Len(values) |-> [key |-> key, value |-> values[i]] ]

\* The lines of the time descriptions: each timing, then its repeat times.
RECURSIVE marshalTimeDescriptions(_)
marshalTimeDescriptions(tds) ==
    IF tds = << >> THEN << >>
    ELSE << [key |-> "t", value |-> tds[1].Timing] >>
         \o RepeatedLines("r", tds[1].RepeatTimes)
         \o marshalTimeDescriptions(Tail(tds))

\* marshalMediaDescription with the fields written in the order the lexer
\* may meet them: the attributes before the title and the connection.
marshalMediaDescription_AttributesFirst(md) ==
    << [key |-> "m", value |-> md.MediaName] >>
    \o RepeatedLines("a", md.Attributes)
    \o OptionalLine("i", md.MediaTitle)
    \o OptionalLine("c", md.ConnectionInformation)
    \o RepeatedLines("b", md.Bandwidth)
    \o OptionalLine("k", md.EncryptionKey)

\* The lines of one media description, in the order of the grammar.
marshalMediaDescription(md) ==
    << [key |-> "m", value |-> md.MediaName] >>
    \o OptionalLine("i", md.MediaTitle)
    \o OptionalLine("c", md.ConnectionInformation)
    \o RepeatedLines("b", md.Bandwidth)
    \o OptionalLine("k", md.EncryptionKey)
    \o RepeatedLines("a", md.Attributes)

RECURSIVE marshalMediaDescriptions(_)
marshalMediaDescriptions(mds) ==
    IF mds = << >> THEN << >>
    ELSE marshalMediaDescription(mds[1]) \o marshalMediaDescriptions(Tail(mds))

\* SessionDescription.Marshal: one line per field present, in the order of
\* the grammar.
marshal(d) ==
    OptionalLine("v", d.Version)
    \o OptionalLine("o", d.Origin)
    \o OptionalLine("s", d.SessionName)
    \o OptionalLine("i", d.SessionInformation)
    \o OptionalLine("u", d.URI)
    \o OptionalLine("e", d.EmailAddress)
    \o OptionalLine("p", d.PhoneNumber)
    \o OptionalLine("c", d.ConnectionInformation)
    \o RepeatedLines("b", d.Bandwidth)
    \o marshalTimeDescriptions(d.TimeDescriptions)
    \o OptionalLine("z", d.TimeZones)
    \o OptionalLine("k", d.EncryptionKey)
    \o RepeatedLines("a", d.Attributes)
    \o marshalMediaDescriptions(d.MediaDescriptions)

----------------------------------------------------------------------------
(* Unmarshal and marshal over the bytes of a text.                         *)

MaxOddLines == 2

CR == "\r"
LF == "\n"
CRLF == << CR, LF >>

\* readType's search for the next record: blank lines (a line terminator and
\* nothing before it) are skipped.
RECURSIVE skipBlankLines(_)
skipBlankLines(input) ==
    IF input # << >> /\ input[1] = LF
    THEN skipBlankLines(Tail(input))
    ELSE IF Len(input) >= 2 /\ input[1] = CR /\ input[2] = LF
    THEN skipBlankLines(SubSeq(input, 3, Len(input)))
    ELSE input

\* readType: the type of the next record and the input after its "=", end
\* of input when no record is left, a syntax error for a line without a type
\* or without "=".
readType(input) ==
    LET line == skipBlankLines(input)
    IN  IF line = << >>
        THEN [key |-> NoKey, err |-> "EOF", rest |-> << >>]
        ELSE IF Len(line) >= 2 /\ line[1] # "=" /\ line[2] = "="
        THEN [key |-> line[1], err |-> "nil", rest |-> SubSeq(line, 3, Len(line))]
        ELSE [key |-> NoKey, err |-> "errSyntaxError", rest |-> line]

\* readLine keeping the "\r" that precedes the "\n".
readLine_KeepCR(input) ==
    LET k == IndexOf(input, LF)
    IN  IF k = 0 THEN [value |-> input, rest |-> << >>]
        ELSE [value |-> SubSeq(input, 1, k - 1), rest |-> SubSeq(input, k + 1, Len(input))]

\* readLine: the value up to the line terminator, "\n" optionally preceded
\* by "\r", and the input after it.
readLine(input) ==
    LET k    == IndexOf(input, LF)
        line == IF k = 0 THEN input ELSE SubSeq(input, 1, k - 1)
        rest == IF k = 0 THEN << >> ELSE SubSeq(input, k + 1, Len(input))
    IN  [ value |-> IF line # << >> /\ line[Len(line)] = CR
                    THEN SubSeq(line, 1, Len(line) - 1) ELSE line,
          rest  |-> rest ]

\* The loop of unmarshal from a state on: a state that reads a record type
\* hands its function to handleType, a field function stores the value of
\* the line and returns the next state; the loop ends at state nil.
RECURSIVE unmarshalFrom(_, _, _)
unmarshalFrom(s, d, input) ==
    IF s \in TypeStates
    THEN LET r   == readType(input)
             res == handleType([key |-> r.key, err |-> r.err], KeyToState[s])
         IN  IF res.state = "nil"
             THEN [desc |-> d, err |-> res.err]
             ELSE unmarshalFrom(res.state, d, r.rest)
    ELSE LET l == readLine(input)
         IN  unmarshalFrom(NextState[s], storeField(s, l.value, d), l.rest)

\* SessionDescription.Unmarshal
unmarshal(text) == unmarshalFrom("s1", EmptyDescription, text)

\* The lines written as text: type, "=", value and "\r\n".
RECURSIVE writeLines(_)
writeLines(lines) ==
    IF lines = << >> THEN << >>
    ELSE << lines[1].key, "=" >> \o lines[1].value \o CRLF \o writeLines(Tail(lines))

\* SessionDescription.Marshal as bytes.
marshalBytes(d) == writeLines(marshal(d))

Record(key, value) == [key |-> key, value |-> value]

\* The records of the texts: the session information text, and the media
\* texts with a connection, a key, and an out-of-order block.
TextRecords ==
    LET base == << Record("v", << "0" >>), Record("o", << "j" >>), Record("s", << "S" >>) >>
        t    == Record("t", << "3", " ", "4" >>)
        m    == Record("m", << "v" >>)
    IN  { base \o << t >>,
          base \o << Record("i", << "A" >>), t >>,
          base \o << t, m, Record("c", << "I", "N" >>) >>,
          base \o << t, m, Record("k", << "p" >>) >>,
          base \o << t, m, Record("a", << "r" >>), Record("c", << "I", "N" >>),
                     Record("i", << "V" >>) >> }

\* What may follow a record instead of "\r\n" alone: "\n" alone, and either
\* followed by a blank line.
OddEndings ==
    { << LF >>, CRLF \o CRLF, CRLF \o << LF >>, << LF >> \o CRLF, << LF, LF >> }

\* The records written with the given endings; "\r\n" where none is given.
RECURSIVE writeText(_, _, _)
writeText(records, endings, i) ==
    IF i > Len(records) THEN << >>
    ELSE << records[i].key, "=" >> \o records[i].value
         \o (IF i \in DOMAIN endings THEN endings[i] ELSE CRLF)
         \o writeText(records, endings, i + 1)

\* A text of valid records of which at most MaxOddLines do not end in "\r\n"
\* alone.
InitText ==
    /\ sd = NoSession
    /\ \E records \in TextRecords :
         \E odd \in { S \in SUBSET (1..Len(records)) : Cardinality(S) <= MaxOddLines } :
           \E endings \in [odd -> OddEndings] :
              call = [ op      |-> "Unmarshal",
                       records |-> records,
                       text    |-> writeText(records, endings, 1) ]
    /\ ret = NoCall
    /\ state = "s1"
    /\ desc = EmptyDescription
    /\ read = << >>
    /\ err = "nil"

\* SessionDescription.Unmarshal on the text.
Unmarshal ==
    /\ call.op = "Unmarshal"
    /\ state = "s1"
    /\ LET r == unmarshal(call.text)
       IN  /\ desc' = r.desc
           /\ err' = r.err
    /\ state' = "nil"
    /\ UNCHANGED << read, codecVars >>

\* SessionDescription.Marshal on the description parsed.
Marshal ==
    /\ call.op = "Unmarshal"
    /\ state = "nil"
    /\ err = "nil"
    /\ ret = NoCall
    /\ ret' = [out |-> marshalBytes(desc)]
    /\ UNCHANGED << sd, call, lexerVars >>

NextText ==
    \/ Unmarshal
    \/ Marshal

SpecText == InitText /\ [][NextText]_vars

----------------------------------------------------------------------------
(* Fmtp equivalence as specified: the same number of parts, and the         *)
(* trimmed parts equal as multisets.                                       *)

\* The parts of an fmtp string, each trimmed.
TrimmedParts(fmtp) ==
    LET parts == Split(fmtp, ";")
    IN  [ i \in 1..Len(parts) |-> TrimSpace(parts[i]) ]

\* How many times x occurs in the list.
Occurrences(x, list) == Cardinality({ i \in 1..Len(list) : list[i] = x })

\* The two fmtp strings have the same number of parts and the same trimmed
\* parts, counted with multiplicity.
SamePartsAsMultisets(want, got) ==
    LET w == TrimmedParts(want)
        g == TrimmedParts(got)
    IN  /\ Len(w) = Len(g)
        /\ \A i \in 1..Len(w) : Occurrences(w[i], w) = Occurrences(w[i], g)

\* C1: equivalentFmtp(wanted, stored) reports a match exactly when both
\* strings split on ";" into the same number of parts and the trimmed parts
\* are equal as multisets.
C1_FmtpMatchIsMultisetEquality ==
    (call.op = "equivalentFmtp" /\ ret # NoCall)
        => (ret.result <=> SamePartsAsMultisets(call.want, call.got))

\* The matching predicate as specified: every non-empty field of wanted
\* matches the candidate's, names ignoring case, fmtp as multisets of parts.
SpecifiedMatch(wanted, candidate) ==
    /\ wanted.Name # << >> =>
          /\ Len(wanted.Name) = Len(candidate.Name)
          /\ \A i \in 1..Len(wanted.Name) :
                ToLower(wanted.Name[i]) = ToLower(candidate.Name[i])
    /\ wanted.ClockRate # 0 => wanted.ClockRate = candidate.ClockRate
    /\ wanted.EncodingParameters # << >> =>
          wanted.EncodingParameters = candidate.EncodingParameters
    /\ wanted.Fmtp # << >> => SamePartsAsMultisets(wanted.Fmtp, candidate.Fmtp)

\* C9: codecsMatch(wanted, candidate) is true exactly when every non-empty
\* field of wanted matches the candidate's (name ignoring case, clock rate and
\* encoding parameters by equality, fmtp by fmtp equivalence); PayloadType and
\* RTCPFeedback of wanted play no part.
C9_MatchIsFieldwiseWildcardMatch ==
    (call.op = "codecsMatch" /\ ret # NoCall)
        => (ret.result <=> SpecifiedMatch(call.wanted, call.got))

----------------------------------------------------------------------------
(* The codec queries against the attributes of the session description.    *)

\* The attributes of all media descriptions, in encounter order.
RECURSIVE AllMediaAttributes(_)
AllMediaAttributes(mds) ==
    IF mds = << >> THEN << >>
    ELSE mds[1].Attributes \o AllMediaAttributes(Tail(mds))

\* What one attribute decodes to: ok is FALSE for an attribute that is no
\* rtpmap, fmtp or rtcp-fb attribute or that fails to decode.
Fragment(a) ==
    LET attr == AttributeString(a)
    IN  CASE HasPrefix(attr, rtpmapPrefix) ->
               LET r == parseRtpmap(attr)
               IN  [ok |-> r.err = "nil", isWildcard |-> FALSE, codec |-> r.codec]
          [] HasPrefix(attr, fmtpPrefix) ->
               LET r == parseFmtp(attr)
               IN  [ok |-> r.err = "nil", isWildcard |-> FALSE, codec |-> r.codec]
          [] HasPrefix(attr, rtcpFbPrefix) ->
               LET r == parseRtcpFb(attr)
               IN  [ok |-> r.err = "nil", isWildcard |-> r.isWildcard, codec |-> r.codec]
          [] OTHER -> [ok |-> FALSE, isWildcard |-> FALSE, codec |-> ZeroCodec]

\* The decoded fragments of the media attributes, in encounter order.
Fragments(s) ==
    LET attributes == AllMediaAttributes(s.MediaDescriptions)
    IN  [ i \in 1..Len(attributes) |-> Fragment(attributes[i]) ]

IsFragmentFor(f, pt) == f.ok /\ ~f.isWildcard /\ f.codec.PayloadType = pt

\* The codecs that contribute to payload type pt: the static seed, if any,
\* then the fragments for pt in encounter order.
Sources(s, pt) ==
    LET fs   == Fragments(s)
        mine == SelectSeq(fs, LAMBDA f : IsFragmentFor(f, pt))
    IN  (IF pt \in DOMAIN StaticCodecs THEN << StaticCodecs[pt] >> ELSE << >>)
        \o [ i \in 1..Len(mine) |-> mine[i].codec ]

\* The first value of the list that is not the zero value; zero if none.
FirstNonEmpty(values, zero) ==
    IF \A i \in 1..Len(values) : values[i] = zero
    THEN zero
    ELSE values[CHOOSE i \in 1..Len(values) :
                   values[i] # zero /\ \A j \in 1..(i - 1) : values[j] = zero]

\* The wildcard feedback strings of the media attributes, in encounter order.
WildcardFeedback(s) ==
    LET fs   == Fragments(s)
        wild == SelectSeq(fs, LAMBDA f : f.ok /\ f.isWildcard)
    IN  [ i \in 1..Len(wild) |-> wild[i].codec.RTCPFeedback[1] ]

\* pt is a static payload type or some media attribute decodes as a fragment
\* for it.
Resolvable(s, pt) ==
    \/ pt \in {0, 8}
    \/ \E i \in 1..Len(Fragments(s)) : IsFragmentFor(Fragments(s)[i], pt)

Returned(op) == call.op = op /\ ret # NoCall

\* C2: the RTCPFeedback list of a Codec returned by a codec query contains no
\* two identical strings.
C2_FeedbackListHasNoDuplicates ==
    (Returned("GetCodecForPayloadType") /\ ret.err = "nil")
        => \A i, j \in 1..Len(ret.codec.RTCPFeedback) :
              ret.codec.RTCPFeedback[i] = ret.codec.RTCPFeedback[j] => i = j

\* C4: each of name, clock rate, encoding parameters and fmtp of the merged
\* Codec for a payload type is the value of the earliest source (static seed,
\* then fragments in encounter order) whose value is non-empty.
C4_ScalarFieldsFirstNonEmptyWins ==
    (Returned("GetCodecForPayloadType") /\ ret.err = "nil")
        => LET src == Sources(sd, call.payloadType)
               n   == Len(src)
           IN  /\ ret.codec.Name =
                      FirstNonEmpty([i \in 1..n |-> src[i].Name], << >>)
               /\ ret.codec.ClockRate =
                      FirstNonEmpty([i \in 1..n |-> src[i].ClockRate], 0)
               /\ ret.codec.EncodingParameters =
                      FirstNonEmpty([i \in 1..n |-> src[i].EncodingParameters], << >>)
               /\ ret.codec.Fmtp =
                      FirstNonEmpty([i \in 1..n |-> src[i].Fmtp], << >>)

\* A payload type fed by two rtpmap lines: the name is the first line's, the
\* encoding parameters, which the first line lacks, are the second line's.
C4_Witness ==
    /\ Returned("GetCodecForPayloadType")
    /\ ret.err = "nil"
    /\ call.payloadType = 96
    /\ ret.codec.Name = << "A" >>
    /\ ret.codec.EncodingParameters = << "2" >>

\* C5: every wildcard feedback string is in the feedback list of every codec
\* of the map, and the wildcard pass only appends, to the list the scan left,
\* strings that the list does not hold yet.
C5_WildcardFeedbackReachesEveryCodec ==
    (Returned("GetCodecForPayloadType") /\ ret.err = "nil")
        => LET before == scanSession(sd).codecs[call.payloadType].RTCPFeedback
               after  == ret.codec.RTCPFeedback
               wild   == WildcardFeedback(sd)
           IN  /\ \A i \in 1..Len(wild) : Occurrences(wild[i], after) >= 1
               /\ Len(after) >= Len(before)
               /\ SubSeq(after, 1, Len(before)) = before
               /\ \A j \in (Len(before) + 1)..Len(after) :
                     /\ Occurrences(after[j], wild) >= 1
                     /\ Occurrences(after[j], after) = 1

\* A static codec that received the wildcard string, and a codec whose own
\* rtcp-fb line already carried it.
C5_Witness ==
    /\ Returned("GetCodecForPayloadType")
    /\ ret.err = "nil"
    /\ WildcardFeedback(sd) # << >>
    /\ \/ call.payloadType = 8 /\ ret.codec.RTCPFeedback = << << "n" >> >>
       \/ /\ call.payloadType = 96
          /\ scanSession(sd).codecs[96].RTCPFeedback = << << "n" >> >>
          /\ ret.codec.RTCPFeedback = << << "n" >> >>

\* C6: GetCodecForPayloadType(pt) succeeds exactly when pt is 0 or 8 or some
\* media attribute decodes as a non-wildcard fragment for pt; it fails with
\* payload-type-not-found otherwise, and the Codec returned carries pt.
C6_LookupSucceedsIffResolvable ==
    Returned("GetCodecForPayloadType")
        => /\ ret.err = "nil" <=> Resolvable(sd, call.payloadType)
           /\ ret.err # "nil" => ret.err = "errPayloadTypeNotFound"
           /\ ret.err = "nil" => ret.codec.PayloadType = call.payloadType

\* Payload type 97 resolved through an fmtp line alone.
C6_Witness ==
    /\ Returned("GetCodecForPayloadType")
    /\ call.payloadType = 97
    /\ ret.err = "nil"
    /\ ret.codec.Name = << >>
    /\ ret.codec.Fmtp # << >>

\* C7: GetPayloadTypeForCodec(wanted) returns a payload type only if its
\* merged Codec matches wanted, returns codec-not-found exactly when no codec
\* of the map matches, and never fails for a wanted Codec with no field set.
C7_FindReturnsAMatchOrNotFound ==
    Returned("GetPayloadTypeForCodec")
        => LET codecs == buildCodecMap(sd)
           IN  /\ ret.err = "nil" =>
                     /\ ret.payloadType \in DOMAIN codecs
                     /\ SpecifiedMatch(call.wanted, codecs[ret.payloadType])
               /\ ret.err = "errCodecNotFound" <=>
                     ~ \E pt \in DOMAIN codecs : SpecifiedMatch(call.wanted, codecs[pt])
               /\ ret.err \in {"nil", "errCodecNotFound"}
               /\ ( /\ call.wanted.Name = << >>
                    /\ call.wanted.ClockRate = 0
                    /\ call.wanted.EncodingParameters = << >>
                    /\ call.wanted.Fmtp = << >> ) => ret.err = "nil"

\* C8: GetCodecsForPayloadTypes(list) never fails, and returns the merged
\* Codecs of the entries of list that the map holds, in the order and with
\* the repetitions of list.
C8_ListLookupKeepsOrderAndOmitsMissing ==
    Returned("GetCodecsForPayloadTypes")
        => LET codecs  == buildCodecMap(sd)
               present == SelectSeq(call.payloadTypes, LAMBDA pt : Resolvable(sd, pt))
           IN  /\ ret.err = "nil"
               /\ Len(ret.result) = Len(present)
               /\ \A i \in 1..Len(present) : ret.result[i] = codecs[present[i]]
               /\ Len(ret.result) <= Len(call.payloadTypes)

\* A list with a repeated entry and a static one, all of them found, and a
\* list whose first entry has no codec.
C8_Witness ==
    /\ Returned("GetCodecsForPayloadTypes")
    /\ \/ /\ call.payloadTypes = << 96, 0, 96 >>
          /\ Len(ret.result) = 3
          /\ ret.result[1] = ret.result[3]
          /\ ret.result[2].PayloadType = 0
       \/ /\ call.payloadTypes = << 98, 8 >>
          /\ Len(ret.result) = 1
          /\ ret.result[1].PayloadType = 8

----------------------------------------------------------------------------
(* Unmarshal and marshal against the text read.                            *)

\* unmarshal has returned without error.
Parsed == state = "nil" /\ err = "nil"

\* C3: whenever unmarshal returns without error, the SessionDescription holds
\* at least one TimeDescription.
C3_ParsedHasTimeDescription ==
    Parsed => Len(desc.TimeDescriptions) >= 1

\* The positions of the m= lines of the text.
MediaStarts(lines) == { i \in 1..Len(lines) : lines[i].key = "m" }

\* The last line of the given type, if any.
LastLine(lines, key) ==
    LET of == SelectSeq(lines, LAMBDA l : l.key = key)
    IN  IF of = << >> THEN << >> ELSE << of[Len(of)] >>

\* The lines of a media block of the text in canonical order: the m= line,
\* the title, the connection, the bandwidths, the key, the attributes.
CanonicalBlock(block) ==
    << block[1] >>
    \o LastLine(Tail(block), "i")
    \o LastLine(Tail(block), "c")
    \o SelectSeq(Tail(block), LAMBDA l : l.key = "b")
    \o LastLine(Tail(block), "k")
    \o SelectSeq(Tail(block), LAMBDA l : l.key = "a")

\* The media blocks of the text from position i on, each in canonical order.
RECURSIVE CanonicalMedia(_, _)
CanonicalMedia(lines, i) ==
    IF i > Len(lines) THEN << >>
    ELSE LET later == { j \in MediaStarts(lines) : j > i }
             end   == IF later = {} THEN Len(lines)
                      ELSE (CHOOSE j \in later : \A k \in later : j <= k) - 1
         IN  CanonicalBlock(SubSeq(lines, i, end)) \o CanonicalMedia(lines, end + 1)

\* The lines from the first m= line on.
MediaPart(lines) ==
    IF MediaStarts(lines) = {} THEN << >>
    ELSE SubSeq(lines, CHOOSE j \in MediaStarts(lines) : \A k \in MediaStarts(lines) : j <= k,
                Len(lines))

\* C10: within a media block i=, c= and a= records are accepted in any
\* relative order, and marshal of the parsed result emits each block as title,
\* connection information, then the attributes in input order, the blocks in
\* input order.
C10_MediaBlockInAnyOrderMarshalsCanonically ==
    /\ ( /\ MediaStarts(read) # {}
         /\ read[Len(read)].key \in {"i", "c", "a"} ) => err = "nil"
    /\ Parsed => MediaPart(marshal(desc)) = CanonicalMedia(MediaPart(read), 1)

\* A text whose media block has an attribute, then the connection, then the
\* title, parsed; marshal does not give the lines back in that order.
C10_Witness ==
    /\ Parsed
    /\ Len(read) = 8
    /\ [ i \in 1..4 |-> read[i + 4].key ] = << "m", "a", "c", "i" >>
    /\ [ i \in 1..4 |-> marshal(desc)[i + 4].key ] = << "m", "i", "c", "a" >>

----------------------------------------------------------------------------
(* The order of the records.                                               *)

\* The record types of the lines read.
Keys(lines) == [ i \in 1..Len(lines) |-> lines[i].key ]

\* The place of a session-level record type in the order
\* v, o, s, [i], [u], [e], [p], [c], b*, (t r*)+, [z], [k], a*.
Rank(key) ==
    CASE key = "v" -> 1  [] key = "o" -> 2  [] key = "s" -> 3  [] key = "i" -> 4
      [] key = "u" -> 5  [] key = "e" -> 6  [] key = "p" -> 7  [] key = "c" -> 8
      [] key = "b" -> 9  [] key = "t" -> 10 [] key = "r" -> 10 [] key = "z" -> 11
      [] key = "k" -> 12 [] key = "a" -> 13 [] OTHER -> 0

\* The ranks whose records may repeat: b, t and r, a.
RepeatedRanks == { Rank("b"), Rank("t"), Rank("a") }

\* The record types, all known, are the beginning of a text in the order of
\* the grammar: v, o, s first, the session-level records in rank order with
\* only b, t, r and a repeated, r after a t or an r, nothing past the time
\* descriptions and no media block without a t, and in a media block any of
\* i, c, b, k, a.
InGrammarOrder(keys) ==
    LET starts  == { i \in 1..Len(keys) : keys[i] = "m" }
        first   == IF starts = {} THEN Len(keys) + 1
                   ELSE CHOOSE j \in starts : \A k \in starts : j <= k
        session == SubSeq(keys, 1, first - 1)
        timed(j) == \E i \in 1..(j - 1) : session[i] = "t"
    IN  /\ \A j \in 1..Len(keys) : keys[j] \in RecordTypes
        /\ \A j \in 1..Len(session) :
              /\ j <= 3 => session[j] = << "v", "o", "s" >>[j]
              /\ j > 3 => Rank(session[j]) > 3
              /\ j > 1 =>
                    \/ Rank(session[j - 1]) < Rank(session[j])
                    \/ /\ Rank(session[j - 1]) = Rank(session[j])
                       /\ Rank(session[j]) \in RepeatedRanks
              /\ session[j] = "r" => session[j - 1] \in {"t", "r"}
              /\ Rank(session[j]) > Rank("t") => timed(j)
        /\ starts # {} => timed(first)
        /\ \A j \in first..Len(keys) : keys[j] \in {"m", "i", "c", "b", "k", "a"}

\* A step of handleType that has read a record.
RecordRead ==
    /\ state \in TypeStates
    /\ Len(read') = Len(read) + 1
    /\ read'[Len(read')].key # NoKey

\* C12: a record whose type the current state does not list ends unmarshal
\* with a syntax error, a record whose type it lists moves to the state
\* selected for that type, a field function is entered only so, and the
\* records are accepted exactly as long as they come in the order of the
\* grammar.
C12_RecordsAcceptedInGrammarOrderOnly ==
    [][ /\ RecordRead =>
             LET key == read'[Len(read')].key
                 fn  == KeyToState[state]
             IN  /\ key \in DOMAIN fn => state' = fn[key] /\ err' = "nil"
                 /\ key \notin DOMAIN fn => state' = "nil" /\ err' = "errSyntaxError"
                 /\ (err' = "nil") <=> InGrammarOrder(Keys(read'))
        /\ state' \in FieldStates =>
             /\ RecordRead
             /\ read'[Len(read')].key \in DOMAIN KeyToState[state]
      ]_vars

\* A known record type out of order: u= after e= is a syntax error.
C12_Witness ==
    /\ Keys(read) = << "v", "o", "s", "e", "u" >>
    /\ state = "nil"
    /\ err = "errSyntaxError"

----------------------------------------------------------------------------
(* Line terminators and blank lines.                                       *)

\* The records written with "\r\n" after each and no blank line.
CanonicalText(records) == writeText(records, << >>, 1)

\* Every "\n" of the text follows a "\r", and no line is blank.
OnlyCRLFAndNoBlankLine(text) ==
    \A i \in 1..Len(text) :
        /\ text[i] = LF => (i > 1 /\ text[i - 1] = CR)
        /\ text[i] = CR => (i > 1 /\ text[i - 1] # LF)

\* The records with each media block in the order marshal writes it.
CanonicalRecords(records) ==
    LET media == MediaPart(records)
    IN  SubSeq(records, 1, Len(records) - Len(media)) \o CanonicalMedia(media, 1)

\* C11: a valid text with "\n" for "\r\n" or with blank lines between or
\* after its records parses to what the same records parse to when written
\* with "\r\n" and no blank line, and marshal of it is, byte for byte, the
\* output for that text: the records in canonical order, "\r\n" after each
\* and no blank line.
C11_TerminatorsAndBlankLinesAreCanonicalized ==
    LET canon == unmarshal(CanonicalText(call.records))
    IN  /\ (call.op = "Unmarshal" /\ state = "nil") =>
              /\ err = "nil"
              /\ err = canon.err
              /\ desc = canon.desc
        /\ (call.op = "Unmarshal" /\ ret # NoCall) =>
              /\ ret.out = marshalBytes(canon.desc)
              /\ ret.out = CanonicalText(CanonicalRecords(call.records))
              /\ OnlyCRLFAndNoBlankLine(ret.out)

\* A text with a record ending in "\n" alone and a blank line after another
\* has been parsed and marshalled.
C11_Witness ==
    /\ call.op = "Unmarshal"
    /\ ret # NoCall
    /\ \E i \in 2..Len(call.text) : call.text[i] = LF /\ call.text[i - 1] \notin { CR, LF }
    /\ \E i \in 3..Len(call.text) : call.text[i] = LF /\ call.text[i - 2] = LF
    /\ ret.out # call.text

----------------------------------------------------------------------------
(* Attribute-decode failures.                                              *)

\* An rtpmap, fmtp or rtcp-fb attribute that fails to decode.
DecodeFails(a) ==
    LET attr == AttributeString(a)
    IN  /\ \/ HasPrefix(attr, rtpmapPrefix)
           \/ HasPrefix(attr, fmtpPrefix)
           \/ HasPrefix(attr, rtcpFbPrefix)
        /\ ~Fragment(a).ok

RemoveAt(seq, i) == SubSeq(seq, 1, i - 1) \o SubSeq(seq, i + 1, Len(seq))

\* The session description without attribute i of media description m.
WithoutAttribute(s, m, i) ==
    [s EXCEPT !.MediaDescriptions[m].Attributes = RemoveAt(@, i)]

\* The places of the failing attributes of a session description.
FailingPlaces(s) ==
    UNION { { << m, i >> : i \in { j \in 1..Len(s.MediaDescriptions[m].Attributes) :
                                     DecodeFails(s.MediaDescriptions[m].Attributes[j]) } }
            : m \in 1..Len(s.MediaDescriptions) }

\* What the query in progress may return on a payload-type map.
Outcomes(c, codecs) ==
    CASE c.op = "GetCodecForPayloadType" ->
           { IF c.payloadType \in DOMAIN codecs
             THEN [codec |-> codecs[c.payloadType], err |-> "nil"]
             ELSE [codec |-> ZeroCodec, err |-> "errPayloadTypeNotFound"] }
      [] c.op = "GetCodecsForPayloadTypes" ->
           { [ result |-> SelectSeq([ k \in 1..Len(c.payloadTypes) |->
                                        IF c.payloadTypes[k] \in DOMAIN codecs
                                        THEN << codecs[c.payloadTypes[k]] >>
                                        ELSE << >> ],
                                    LAMBDA x : x # << >>),
               err |-> "nil" ] }
      [] c.op = "GetPayloadTypeForCodec" ->
           LET matches == { pt \in DOMAIN codecs : codecsMatch(c.wanted, codecs[pt]) }
           IN  IF matches = {}
               THEN { [payloadType |-> 0, err |-> "errCodecNotFound"] }
               ELSE { [payloadType |-> pt, err |-> "nil"] : pt \in matches }
      [] OTHER -> { }

\* C13: for every media attribute that starts with rtpmap:, fmtp: or rtcp-fb:
\* and fails to decode, the payload-type map is the map built from the same
\* attributes without it, and the query in progress returns what it may
\* return on the session description without it: a decode failure is never
\* the error of a query.
C13_DecodeFailureIsSkipped ==
    \A p \in FailingPlaces(sd) :
        LET without == buildCodecMap(WithoutAttribute(sd, p[1], p[2]))
        IN  /\ buildCodecMap(sd) = without
            /\ call # NoCall =>
                  /\ ret.err \in {"nil", "errPayloadTypeNotFound", "errCodecNotFound"}
                  /\ LET outcome == IF call.op = "GetCodecsForPayloadTypes"
                                    THEN [ result |-> [ k \in 1..Len(ret.result) |->
                                                          << ret.result[k] >> ],
                                           err |-> ret.err ]
                                    ELSE ret
                     IN  outcome \in Outcomes(call, without)

\* A failing rtpmap comes first and the attribute after it is processed: the
\* lookup of 96 finds the name of the second rtpmap.
C13_Witness ==
    /\ FailingPlaces(sd) # {}
    /\ Len(sd.MediaDescriptions) >= 1
    /\ Len(sd.MediaDescriptions[1].Attributes) >= 2
    /\ DecodeFails(sd.MediaDescriptions[1].Attributes[1])
    /\ Returned("GetCodecForPayloadType")
    /\ call.payloadType = 96
    /\ ret.err = "nil"
    /\ ret.codec.Name = << "A" >>

====
